---- MODULE Spec2Model ----
(***************************************************************************)
(* Model of neuropods/python/backends/config_utils.py: the validators of   *)
(* a tensor spec and of a neuropod config, the dtype canonicalization, and *)
(* the two operations that write and read config.json in a package         *)
(* directory.                                                              *)
(***************************************************************************)
EXTENDS Integers, Sequences, FiniteSets, TLC

VARIABLES
    file,         \* config.json in the package directory
    pre,          \* config.json as it was when the last call started
    op,           \* the last call made: "none" before any call
    cfg,          \* the config argument of the last call (for write: its four arguments)
    tspec,        \* the tensor spec argument of the last call
    err,          \* what the last call raised, NoError when it returned
    ret,          \* what read_neuropod_config returned
    transformed   \* what canonicalize_tensor_spec returned

vars == <<file, pre, op, cfg, tspec, err, ret, transformed>>

----------------------------------------------------------------------------
(* Bounds of the model *)

MaxInputSpecLen == 2     \* items of input_spec in a write call
MaxConfigSpecLen == 2    \* items of each spec of a validated config
MaxShapeLen == 3         \* dimensions of a shape given to validate_tensor_spec
MaxTensorSpecLen == 2    \* items of a spec given to validate_tensor_spec
MaxCanonLen == 2         \* items of a spec given to canonicalize_tensor_spec

----------------------------------------------------------------------------
(* Python values.  k is the type of the value: "str" (basestring), "int"   *)
(* (int or long), "bool", "float", "none".  s holds the text of a string,  *)
(* n the number of an int or float; True is PyBool(1), False is PyBool(0).     *)

PyStr(s) == [k |-> "str", s |-> s, n |-> 0]
PyInt(n) == [k |-> "int", s |-> "", n |-> n]
PyBool(b) == [k |-> "bool", s |-> "", n |-> b]
PyFloat(n) == [k |-> "float", s |-> "", n |-> n]
PyNone == [k |-> "none", s |-> "", n |-> 0]

\* A shape: a list, a tuple, or a value that is neither ("scalar").
List(dims) == [kind |-> "list", dims |-> dims]
Tuple(dims) == [kind |-> "tuple", dims |-> dims]
Scalar == [kind |-> "scalar", dims |-> <<>>]

Item(name, dtype, shape) == [name |-> name, dtype |-> dtype, shape |-> shape]

Config(name, platform, input_spec, output_spec) ==
    [name |-> name, platform |-> platform,
     input_spec |-> input_spec, output_spec |-> output_spec]

isinstance_basestring(v) == v.k = "str"
isinstance_bool(v) == v.k = "bool"
\* bool is a subclass of int
isinstance_int_long(v) == v.k \in {"int", "bool"}
isinstance_list_tuple(shape) == shape.kind \in {"list", "tuple"}

----------------------------------------------------------------------------
(* Errors.  The code raises ValueError with four different messages, and   *)
(* numpy raises TypeError for a type name it does not know; err names them *)
(* InvalidDtype, InvalidFieldType, InvalidDimension and UnrecognizedDtype. *)
(* scope and field are the field the message names, got and got_shape the  *)
(* value the message prints.                                               *)

NoShape == [kind |-> "none", dims |-> <<>>]

NoError ==
    [err |-> "ok", scope |-> "", field |-> "", got |-> PyNone, got_shape |-> NoShape]

Raise(e, scope, field, got, got_shape) ==
    [err |-> e, scope |-> scope, field |-> field, got |-> got, got_shape |-> got_shape]

SeqsUpTo(S, n) == UNION {[1..m -> S] : m \in 0..n}

----------------------------------------------------------------------------
(* validate_tensor_spec *)

ALLOWED_DTYPES ==
    {"float32", "float64", "string",
     "int8", "int16", "int32", "int64",
     "uint8", "uint16", "uint32", "uint64"}

\* the dtype test reduced to a test for text
dtype_allowed_any_text(dtype) == isinstance_basestring(dtype)

\* dtype in ALLOWED_DTYPES: == against each member of a list of strings
dtype_allowed(dtype) == isinstance_basestring(dtype) /\ dtype.s \in ALLOWED_DTYPES

\* is_uint without the test for bool, which isinstance(dim, int) lets through
is_uint_bool_as_int(dim) == isinstance_int_long(dim) /\ dim.n > 0

is_uint(dim) == (~isinstance_bool(dim)) /\ isinstance_int_long(dim) /\ dim.n > 0

dim_ok(dim) == dim.k = "none" \/ is_uint(dim) \/ isinstance_basestring(dim)

\* for dim in shape: the first dimension from the j-th on that is not
\* accepted raises
RECURSIVE validate_dims(_, _)
validate_dims(dims, j) ==
    IF j > Len(dims) THEN NoError
    ELSE IF dim_ok(dims[j]) THEN validate_dims(dims, j + 1)
    ELSE Raise("InvalidDimension", "item", "shape", dims[j], NoShape)

\* validate_item with the shape checked before the dtype and the name
validate_item_shape_first(item) ==
    IF ~isinstance_list_tuple(item.shape)
    THEN Raise("InvalidFieldType", "item", "shape", PyNone, item.shape)
    ELSE IF ~dtype_allowed(item.dtype)
    THEN Raise("InvalidDtype", "item", "dtype", item.dtype, NoShape)
    ELSE IF ~isinstance_basestring(item.name)
    THEN Raise("InvalidFieldType", "item", "name", item.name, NoShape)
    ELSE validate_dims(item.shape.dims, 1)

\* the body of the loop over the items of a spec
validate_item(item) ==
    IF ~dtype_allowed(item.dtype)
    THEN Raise("InvalidDtype", "item", "dtype", item.dtype, NoShape)
    ELSE IF ~isinstance_basestring(item.name)
    THEN Raise("InvalidFieldType", "item", "name", item.name, NoShape)
    ELSE IF ~isinstance_list_tuple(item.shape)
    THEN Raise("InvalidFieldType", "item", "shape", PyNone, item.shape)
    ELSE validate_dims(item.shape.dims, 1)

RECURSIVE validate_items(_, _)
validate_items(spec, i) ==
    IF i > Len(spec) THEN NoError
    ELSE LET e == validate_item(spec[i])
         IN  IF e.err = "ok" THEN validate_items(spec, i + 1) ELSE e

validate_tensor_spec(spec) == validate_items(spec, 1)

----------------------------------------------------------------------------
(* validate_neuropod_config *)

\* validate_neuropod_config without the check of platform
validate_neuropod_config_name_only(config) ==
    IF ~isinstance_basestring(config.name)
    THEN Raise("InvalidFieldType", "config", "name", config.name, NoShape)
    ELSE LET e == validate_tensor_spec(config.input_spec)
         IN  IF e.err = "ok" THEN validate_tensor_spec(config.output_spec) ELSE e

\* validate_neuropod_config with platform checked before name
validate_neuropod_config_platform_first(config) ==
    IF ~isinstance_basestring(config.platform)
    THEN Raise("InvalidFieldType", "config", "platform", config.platform, NoShape)
    ELSE IF ~isinstance_basestring(config.name)
    THEN Raise("InvalidFieldType", "config", "name", config.name, NoShape)
    ELSE LET e == validate_tensor_spec(config.input_spec)
         IN  IF e.err = "ok" THEN validate_tensor_spec(config.output_spec) ELSE e

validate_neuropod_config(config) ==
    IF ~isinstance_basestring(config.name)
    THEN Raise("InvalidFieldType", "config", "name", config.name, NoShape)
    ELSE IF ~isinstance_basestring(config.platform)
    THEN Raise("InvalidFieldType", "config", "platform", config.platform, NoShape)
    ELSE LET e == validate_tensor_spec(config.input_spec)
         IN  IF e.err = "ok" THEN validate_tensor_spec(config.output_spec) ELSE e

----------------------------------------------------------------------------
(* canonicalize_tensor_spec *)

\* the name of a text dtype taken as given, with no resolution of aliases
np_dtype_name_as_given(dtype) ==
    IF dtype.k = "none" THEN "float64"
    ELSE IF dtype.k # "str" THEN ""
    ELSE dtype.s

\* np_dtype_name with float resolved to the 32-bit type
np_dtype_name_float_is_single(dtype) ==
    IF dtype.k = "none" THEN "float64"
    ELSE IF dtype.k # "str" THEN ""
    ELSE IF dtype.s \in {"float32", "float64", "string", "int8", "int16", "int32",
                         "int64", "uint8", "uint16", "uint32", "uint64",
                         "float16", "bool"} THEN dtype.s
    ELSE IF dtype.s = "double" THEN "float64"
    ELSE IF dtype.s \in {"single", "float"} THEN "float32"
    ELSE IF dtype.s = "half" THEN "float16"
    ELSE IF dtype.s = "str" THEN "string"
    ELSE ""

\* np.dtype(x).name, "" when np.dtype(x) raises TypeError.  The names numpy
\* resolves, among the ones the model draws from: the canonical names
\* themselves, the aliases double, float, single, half and str, and None
\* (the default type, float64).
np_dtype_name(dtype) ==
    IF dtype.k = "none" THEN "float64"
    ELSE IF dtype.k # "str" THEN ""
    ELSE IF dtype.s \in ALLOWED_DTYPES \cup {"float16", "bool"} THEN dtype.s
    ELSE IF dtype.s \in {"double", "float"} THEN "float64"
    ELSE IF dtype.s = "single" THEN "float32"
    ELSE IF dtype.s = "half" THEN "float16"
    ELSE IF dtype.s = "str" THEN "string"
    ELSE ""

np_dtype_raises(dtype) == np_dtype_name(dtype) = ""

canonicalize_item(item) ==
    [name |-> item.name, dtype |-> PyStr(np_dtype_name(item.dtype)), shape |-> item.shape]

\* the list built by the loop; the call raises when np.dtype raises for
\* some item (canonicalize_raises)
canonicalize_tensor_spec(spec) == [i \in 1..Len(spec) |-> canonicalize_item(spec[i])]

canonicalize_raises(spec) == \E i \in 1..Len(spec) : np_dtype_raises(spec[i].dtype)

\* the first item np.dtype raises for: the loop stops there
first_unrecognized(spec) ==
    LET i == CHOOSE i \in 1..Len(spec) :
                 /\ np_dtype_raises(spec[i].dtype)
                 /\ \A j \in 1..(i - 1) : ~np_dtype_raises(spec[j].dtype)
    IN  spec[i].dtype

canonicalize_error(spec) ==
    Raise("UnrecognizedDtype", "item", "dtype", first_unrecognized(spec), NoShape)

----------------------------------------------------------------------------
(* config.json, json.dump and json.load *)

NoConfig == Config(PyNone, PyNone, <<>>, <<>>)

\* config.json: st is "absent" (no file), "empty" (a file of zero bytes),
\* "garbage" (text that is no JSON) or "doc" (a JSON document, doc).  In a
\* document a shape is an array (kind "array") or a scalar.
Absent == [st |-> "absent", doc |-> NoConfig]
Empty == [st |-> "empty", doc |-> NoConfig]
Garbage == [st |-> "garbage", doc |-> NoConfig]
Doc(d) == [st |-> "doc", doc |-> d]

Array(dims) == [kind |-> "array", dims |-> dims]

\* json.dump writes a list and a tuple alike as an array
json_dump_shape(shape) ==
    IF isinstance_list_tuple(shape) THEN Array(shape.dims) ELSE shape

json_dump_spec(spec) ==
    [i \in 1..Len(spec) |->
        [name |-> spec[i].name, dtype |-> spec[i].dtype,
         shape |-> json_dump_shape(spec[i].shape)]]

json_dump(config) ==
    Config(config.name, config.platform,
           json_dump_spec(config.input_spec), json_dump_spec(config.output_spec))

\* json.load reads an array as a list
json_load_shape(shape) ==
    IF shape.kind = "array" THEN List(shape.dims) ELSE shape

json_load_spec(spec) ==
    [i \in 1..Len(spec) |->
        [name |-> spec[i].name, dtype |-> spec[i].dtype,
         shape |-> json_load_shape(spec[i].shape)]]

json_load(doc) ==
    Config(doc.name, doc.platform,
           json_load_spec(doc.input_spec), json_load_spec(doc.output_spec))

----------------------------------------------------------------------------
(* write_neuropod_config *)

\* open(path, "w"): the file is created, or truncated, as it is opened
open_w(f) == Empty

\* the file and the error the call ends with
write_neuropod_config(f, model_name, platform, input_spec, output_spec) ==
    LET config_file == open_w(f)
        config == Config(model_name, platform,
                         canonicalize_tensor_spec(input_spec),
                         canonicalize_tensor_spec(output_spec))
    IN  IF canonicalize_raises(input_spec)
        THEN [file |-> config_file, err |-> canonicalize_error(input_spec)]
        ELSE IF canonicalize_raises(output_spec)
        THEN [file |-> config_file, err |-> canonicalize_error(output_spec)]
        ELSE IF validate_neuropod_config(config).err # "ok"
        THEN [file |-> config_file, err |-> validate_neuropod_config(config)]
        ELSE [file |-> Doc(json_dump(config)), err |-> NoError]

----------------------------------------------------------------------------
(* read_neuropod_config *)

NoReturn == [some |-> FALSE, cfg |-> NoConfig]
Return(config) == [some |-> TRUE, cfg |-> config]

\* read_neuropod_config without the validation of the parsed config
read_neuropod_config_unvalidated(f) ==
    IF f.st = "absent"
    THEN [err |-> Raise("IOError", "", "", PyNone, NoShape), ret |-> NoReturn]
    ELSE IF f.st # "doc"
    THEN [err |-> Raise("JSONDecodeError", "", "", PyNone, NoShape), ret |-> NoReturn]
    ELSE [err |-> NoError, ret |-> Return(json_load(f.doc))]

\* the error the call raises and the config it returns
read_neuropod_config(f) ==
    IF f.st = "absent"
    THEN [err |-> Raise("IOError", "", "", PyNone, NoShape), ret |-> NoReturn]
    ELSE IF f.st # "doc"
    THEN [err |-> Raise("JSONDecodeError", "", "", PyNone, NoShape), ret |-> NoReturn]
    ELSE LET config == json_load(f.doc)
         IN  IF validate_neuropod_config(config).err # "ok"
             THEN [err |-> validate_neuropod_config(config), ret |-> NoReturn]
             ELSE [err |-> NoError, ret |-> Return(config)]

----------------------------------------------------------------------------
(* The calls with config.json: write_neuropod_config, read_neuropod_config *)

WriteNames == {PyStr("my_addition_model"), PyInt(123)}
WritePlatforms == {PyStr("python"), PyInt(7)}

ItemX == Item(PyStr("x"), PyStr("float"), Tuple(<<PyNone>>))
ItemY == Item(PyStr("y"), PyStr("float32"), List(<<PyInt(5), PyStr("batch")>>))
ItemBogus == Item(PyStr("z"), PyStr("bogus"), List(<<PyInt(5)>>))

WriteInputSpecs == SeqsUpTo({ItemX, ItemY}, MaxInputSpecLen)
WriteOutputSpecs == {<<>>, <<ItemY>>, <<ItemBogus>>, <<ItemY, ItemBogus>>}

\* what the directory may hold before the first call: nothing, or a file
\* written by hand or by another writer
DocItem(name, dtype, dims) == Item(name, dtype, Array(dims))

InitialFiles ==
    {Absent, Empty, Garbage,
     Doc(Config(PyStr("m"), PyStr("python"),
                <<DocItem(PyStr("x"), PyStr("float32"), <<PyNone, PyInt(5)>>)>>, <<>>)),
     Doc(Config(PyInt(123), PyStr("python"), <<>>, <<>>)),
     Doc(Config(PyStr("m"), PyStr("python"),
                <<DocItem(PyStr("x"), PyStr("float16"), <<PyNone>>)>>, <<>>)),
     Doc(Config(PyStr("m"), PyStr("python"), <<>>,
                <<DocItem(PyStr("y"), PyStr("float32"), <<PyBool(1)>>)>>))}

Init ==
    /\ file \in InitialFiles
    /\ pre = Absent
    /\ op = "none"
    /\ cfg = NoConfig
    /\ tspec = <<>>
    /\ err = NoError
    /\ ret = NoReturn
    /\ transformed = <<>>

Write ==
    \E model_name \in WriteNames, platform \in WritePlatforms,
       input_spec \in WriteInputSpecs, output_spec \in WriteOutputSpecs :
        LET r == write_neuropod_config(file, model_name, platform, input_spec, output_spec)
        IN  /\ op' = "write"
            /\ cfg' = Config(model_name, platform, input_spec, output_spec)
            /\ pre' = file
            /\ file' = r.file
            /\ err' = r.err
            /\ ret' = NoReturn
            /\ UNCHANGED <<tspec, transformed>>

Read ==
    LET r == read_neuropod_config(file)
    IN  /\ op' = "read"
        /\ cfg' = NoConfig
        /\ pre' = file
        /\ err' = r.err
        /\ ret' = r.ret
        /\ UNCHANGED <<file, tspec, transformed>>

Next == Write \/ Read

Spec == Init /\ [][Next]_vars

----------------------------------------------------------------------------
(* validate_tensor_spec applied to the specs of TensorSpecInputs *)

DimValues ==
    {PyNone, PyStr("batch"), PyInt(5), PyInt(0), PyInt(-3),
     PyBool(1), PyBool(0), PyFloat(5)}

DimShapes ==
    {List(dims) : dims \in SeqsUpTo(DimValues, MaxShapeLen)}
        \cup {Tuple(dims) : dims \in SeqsUpTo(DimValues, MaxShapeLen)}

\* one item each: a shape of DimShapes under an allowed dtype and a text name
DimSpecs == {<<Item(PyStr("x"), PyStr("float32"), shape)>> : shape \in DimShapes}

DtypeValues ==
    {PyStr(d) : d \in ALLOWED_DTYPES}
        \cup {PyStr("float16"), PyStr("bool"), PyStr("double"), PyInt(7), PyNone}

DtypeItems ==
    {Item(PyStr("x"), d, List(<<PyInt(5)>>)) : d \in DtypeValues}
        \cup {Item(PyInt(1), d, List(<<PyInt(5)>>)) : d \in DtypeValues}
        \cup {Item(PyStr("x"), d, Scalar) : d \in DtypeValues}

TensorSpecInputs == DimSpecs \cup SeqsUpTo(DtypeItems, MaxTensorSpecLen)

InitTensor ==
    /\ tspec \in TensorSpecInputs
    /\ file = Absent
    /\ pre = Absent
    /\ op = "none"
    /\ cfg = NoConfig
    /\ err = NoError
    /\ ret = NoReturn
    /\ transformed = <<>>

ValidateTensorSpec ==
    /\ op' = "validate_tensor_spec"
    /\ err' = validate_tensor_spec(tspec)
    /\ UNCHANGED <<file, pre, cfg, tspec, ret, transformed>>

SpecTensor == InitTensor /\ [][ValidateTensorSpec]_vars

----------------------------------------------------------------------------
(* validate_neuropod_config applied to the configs of ConfigInputs *)

ConfigNames == {PyStr("m"), PyStr(""), PyInt(123)}
ConfigPlatforms == {PyStr("python"), PyStr(""), PyInt(7)}

ConfigItems ==
    {Item(PyStr("x"), PyStr("float32"), List(<<PyInt(5)>>)),
     Item(PyInt(1), PyStr("float16"), Scalar),
     Item(PyInt(2), PyStr("float32"), Scalar),
     Item(PyStr("y"), PyStr("int8"), Scalar),
     Item(PyStr("z"), PyStr("float32"), List(<<PyInt(0), PyBool(1)>>))}

ConfigInputs ==
    {Config(n, p, i, o) :
        n \in ConfigNames, p \in ConfigPlatforms,
        i \in SeqsUpTo(ConfigItems, MaxConfigSpecLen),
        o \in SeqsUpTo(ConfigItems, MaxConfigSpecLen)}

InitConfig ==
    /\ cfg \in ConfigInputs
    /\ file = Absent
    /\ pre = Absent
    /\ op = "none"
    /\ tspec = <<>>
    /\ err = NoError
    /\ ret = NoReturn
    /\ transformed = <<>>

ValidateConfig ==
    /\ op' = "validate_neuropod_config"
    /\ err' = validate_neuropod_config(cfg)
    /\ UNCHANGED <<file, pre, cfg, tspec, ret, transformed>>

SpecConfig == InitConfig /\ [][ValidateConfig]_vars

----------------------------------------------------------------------------
(* canonicalize_tensor_spec applied to the specs of CanonInputs *)

CanonDtypes ==
    {PyStr(d) : d \in ALLOWED_DTYPES}
        \cup {PyStr("double"), PyStr("float"), PyStr("single"), PyStr("half"),
              PyStr("str"), PyStr("float16"), PyStr("bool"), PyStr("bogus"),
              PyInt(7), PyNone}

CanonItems == {Item(PyStr("x"), d, Tuple(<<PyNone>>)) : d \in CanonDtypes}

CanonInputs == SeqsUpTo(CanonItems, MaxCanonLen)

InitCanon ==
    /\ tspec \in CanonInputs
    /\ file = Absent
    /\ pre = Absent
    /\ op = "none"
    /\ cfg = NoConfig
    /\ err = NoError
    /\ ret = NoReturn
    /\ transformed = <<>>

Canonicalize ==
    /\ op' = "canonicalize_tensor_spec"
    /\ err' = IF canonicalize_raises(tspec) THEN canonicalize_error(tspec) ELSE NoError
    /\ transformed' =
           IF canonicalize_raises(tspec) THEN <<>> ELSE canonicalize_tensor_spec(tspec)
    /\ UNCHANGED <<file, pre, cfg, tspec, ret>>

SpecCanon == InitCanon /\ [][Canonicalize]_vars

----------------------------------------------------------------------------
(* Claims about write_neuropod_config and read_neuropod_config (Spec)      *)

\* the config a document holds passes validate_neuropod_config
HoldsValidDoc(f) == f.st = "doc" /\ validate_neuropod_config(json_load(f.doc)).err = "ok"

\* C1: a write call that fails (canonicalization or validation) leaves
\* config.json exactly as it was before the call: not created if it was
\* absent, its contents unchanged if it was present.
C1_FailedWriteLeavesFile ==
    (op = "write" /\ err.err # "ok") => file = pre

\* C2: no invalid config is ever persisted: a write call on a directory
\* whose config.json is absent or holds a valid document leaves config.json
\* absent or holding a document that passes the validator.
C2_NoInvalidPersisted ==
    (op = "write" /\ (pre.st = "absent" \/ HoldsValidDoc(pre)))
        => (file.st = "absent" \/ HoldsValidDoc(file))

\* C3: read never returns an invalid config: whatever config.json holds,
\* read either returns the parsed document, and that document passes the
\* validator, or it fails with an error and returns nothing.
C3_ReadNeverReturnsInvalid ==
    op = "read" =>
        \/ /\ err.err = "ok"
           /\ ret.some
           /\ pre.st = "doc"
           /\ ret.cfg = json_load(pre.doc)
           /\ validate_neuropod_config(ret.cfg).err = "ok"
        \/ /\ err.err # "ok"
           /\ ~ret.some

\* a hand-written valid document was read and returned
C3_Witness ==
    /\ op = "read"
    /\ ret.some
    /\ Len(ret.cfg.input_spec) > 0

\* The canonical name of a type name, as the spec gives it: an alias goes to
\* the member of the fixed set it names, a member stays.
CanonicalNameOf(d) ==
    IF d \in {"float", "double"} THEN "float64"
    ELSE IF d = "single" THEN "float32"
    ELSE d

\* canonicalize(C), with every shape a value of the given kind
ExpectedItem(item, shape) ==
    [name |-> item.name, dtype |-> PyStr(CanonicalNameOf(item.dtype.s)), shape |-> shape]

ExpectedSameShapes(spec) ==
    [i \in 1..Len(spec) |-> ExpectedItem(spec[i], spec[i].shape)]

ExpectedAsLists(spec) ==
    [i \in 1..Len(spec) |-> ExpectedItem(spec[i], List(spec[i].shape.dims))]

\* C4 as stated: the config read back after a successful write equals
\* canonicalize(C): same name and platform, the same items in the same
\* order, each with the same name and shape and the canonical dtype.
C4_RoundTripEqual ==
    (op = "write" /\ err.err = "ok") =>
        LET r == read_neuropod_config(file)
        IN  /\ r.err.err = "ok"
            /\ r.ret.cfg = Config(cfg.name, cfg.platform,
                                  ExpectedSameShapes(cfg.input_spec),
                                  ExpectedSameShapes(cfg.output_spec))

\* C4 amended: the config read back after a successful write has the same
\* name and platform and the same items in the same order, each with the
\* same name, the canonical dtype, and the same dimensions in the same
\* order in a shape that is a list (a tuple shape is read back as a list).
C4_RoundTripDims ==
    (op = "write" /\ err.err = "ok") =>
        LET r == read_neuropod_config(file)
        IN  /\ r.err.err = "ok"
            /\ r.ret.cfg = Config(cfg.name, cfg.platform,
                                  ExpectedAsLists(cfg.input_spec),
                                  ExpectedAsLists(cfg.output_spec))

\* a write of two input items, one with an alias dtype and a tuple shape,
\* and one output item succeeded
C4_Witness ==
    /\ op = "write"
    /\ err.err = "ok"
    /\ cfg.input_spec = <<ItemY, ItemX>>
    /\ cfg.output_spec = <<ItemY>>
    /\ file.st = "doc"

\* C10 as stated: a write whose model_name is not text fails with
\* InvalidFieldType for the field name, carrying the value, whatever the
\* other arguments are.
C10_NameErrorAlways ==
    (op = "write" /\ ~isinstance_basestring(cfg.name)) =>
        err = Raise("InvalidFieldType", "config", "name", cfg.name, NoShape)

AllCanonicalizable(spec) ==
    \A i \in 1..Len(spec) :
        spec[i].dtype.k = "str" /\ spec[i].dtype.s \in {"float", "float32"}

\* C10 amended: a write whose model_name is not text fails with
\* InvalidFieldType for the field name, carrying the value, whatever the
\* platform and whatever the specs, provided every dtype name of both specs
\* can be canonicalized; when one cannot, the call fails with
\* UnrecognizedDtype for the first such name instead.
C10_NameErrorAfterCanonicalize ==
    (op = "write" /\ ~isinstance_basestring(cfg.name)) =>
        IF AllCanonicalizable(cfg.input_spec) /\ AllCanonicalizable(cfg.output_spec)
        THEN err = Raise("InvalidFieldType", "config", "name", cfg.name, NoShape)
        ELSE err = Raise("UnrecognizedDtype", "item", "dtype", PyStr("bogus"), NoShape)

\* a write with model_name 123 and a platform that is not text either
\* failed on the name
C10_Witness ==
    /\ op = "write"
    /\ cfg.name = PyInt(123)
    /\ cfg.platform = PyInt(7)
    /\ Len(cfg.input_spec) > 0
    /\ err.err = "InvalidFieldType"
    /\ err.field = "name"

----------------------------------------------------------------------------
(* Claims about the validators and the canonicalizer                       *)

\* the canonical dtype names the spec lists
CanonicalSet ==
    {"float32", "float64", "string", "int8", "int16", "int32", "int64",
     "uint8", "uint16", "uint32", "uint64"}

InCanonicalSet(dtype) == dtype.k = "str" /\ dtype.s \in CanonicalSet

\* a dimension the spec accepts: the unbound marker, a textual label, or a
\* strictly positive integer that is not a boolean
DimAccepted(dim) == dim.k = "none" \/ dim.k = "str" \/ (dim.k = "int" /\ dim.n > 0)

\* C5 as stated: the canonicalizer returns only members of the fixed
\* canonical set, or fails with UnrecognizedDtype.
C5_CanonicalOrFails ==
    op = "canonicalize_tensor_spec" =>
        \/ err.err = "UnrecognizedDtype"
        \/ /\ err.err = "ok"
           /\ \A i \in 1..Len(transformed) : InCanonicalSet(transformed[i].dtype)

\* C5 amended: the canonicalizer returns, for every item, the name the
\* type-name resolution gives the type, or fails with UnrecognizedDtype.
\* That name is the member of the fixed set whenever the input is a member
\* or an alias of one, and a name outside the set (float16, bool) when the
\* resolution knows the type and the set does not contain it.
C5_ResolvedOrFails ==
    op = "canonicalize_tensor_spec" =>
        \/ /\ err.err = "UnrecognizedDtype"
           /\ \E i \in 1..Len(tspec) : tspec[i].dtype \in {PyStr("bogus"), PyInt(7)}
        \/ /\ err.err = "ok"
           /\ Len(transformed) = Len(tspec)
           /\ \A i \in 1..Len(tspec) :
                 LET given == tspec[i].dtype
                     got == transformed[i].dtype
                 IN  /\ got.k = "str"
                     /\ got.s \in CanonicalSet \cup {"float16", "bool"}
                     /\ InCanonicalSet(given) => got = given
                     /\ given \in {PyStr("double"), PyStr("float")} => got.s = "float64"
                     /\ given \in {PyStr("float16"), PyStr("half")} => got.s = "float16"
                     /\ given = PyStr("bool") => got.s = "bool"

\* a spec with the alias double and the name float16 was canonicalized
C5_Witness ==
    /\ op = "canonicalize_tensor_spec"
    /\ err.err = "ok"
    /\ Len(tspec) = 2
    /\ tspec[1].dtype = PyStr("double")
    /\ tspec[2].dtype = PyStr("float16")
    /\ transformed[2].dtype = PyStr("float16")

\* C6 as stated: the config validator accepts a config only if its name
\* and its platform are both non-empty text.
C6_NonEmptyText ==
    (op = "validate_neuropod_config" /\ err.err = "ok") =>
        /\ cfg.name.k = "str" /\ cfg.name.s # ""
        /\ cfg.platform.k = "str" /\ cfg.platform.s # ""

\* C6 amended: the config validator accepts a config only if its name and
\* its platform are both text, and rejects a name or platform that is not
\* text with InvalidFieldType; the empty string is text and is accepted.
C6_Text ==
    op = "validate_neuropod_config" =>
        /\ err.err = "ok" => (cfg.name.k = "str" /\ cfg.platform.k = "str")
        /\ (cfg.name.k # "str" \/ cfg.platform.k # "str") =>
               (err.err = "InvalidFieldType" /\ err.scope = "config")
        /\ (cfg.name \in {PyStr("m"), PyStr("")} /\ cfg.platform \in {PyStr("python"), PyStr("")}
              /\ cfg.input_spec = <<>> /\ cfg.output_spec = <<>>) => err.err = "ok"

\* a config with an empty name and an empty platform was accepted
C6_Witness ==
    /\ op = "validate_neuropod_config"
    /\ cfg.name = PyStr("")
    /\ cfg.platform = PyStr("")
    /\ err.err = "ok"

\* The checks of a config in the order of the spec, each with the error it
\* reports: name, platform, the items of input_spec, the items of
\* output_spec; within an item dtype, name, shape, then the dimensions.
Check(bad, e) == [bad |-> bad, e |-> e]

ItemChecks(item) ==
    <<Check(~InCanonicalSet(item.dtype),
            Raise("InvalidDtype", "item", "dtype", item.dtype, NoShape)),
      Check(item.name.k # "str",
            Raise("InvalidFieldType", "item", "name", item.name, NoShape)),
      Check(item.shape.kind \notin {"list", "tuple"},
            Raise("InvalidFieldType", "item", "shape", PyNone, item.shape))>>
    \o [j \in 1..Len(item.shape.dims) |->
          Check(~DimAccepted(item.shape.dims[j]),
                Raise("InvalidDimension", "item", "shape", item.shape.dims[j], NoShape))]

RECURSIVE SpecChecks(_)
SpecChecks(spec) ==
    IF spec = <<>> THEN <<>> ELSE ItemChecks(Head(spec)) \o SpecChecks(Tail(spec))

ConfigChecks(config) ==
    <<Check(config.name.k # "str",
            Raise("InvalidFieldType", "config", "name", config.name, NoShape)),
      Check(config.platform.k # "str",
            Raise("InvalidFieldType", "config", "platform", config.platform, NoShape))>>
    \o SpecChecks(config.input_spec) \o SpecChecks(config.output_spec)

FirstViolation(checks) ==
    IF \A i \in 1..Len(checks) : ~checks[i].bad THEN NoError
    ELSE LET i == CHOOSE i \in 1..Len(checks) :
                      checks[i].bad /\ \A j \in 1..(i - 1) : ~checks[j].bad
         IN  checks[i].e

\* C7: validating a config reports exactly one error, that of the first
\* violation in the order name, platform, items of input_spec in order,
\* items of output_spec in order, and within an item dtype, name, shape
\* being a sequence, dimensions left to right.
C7_FailFastOrder ==
    op = "validate_neuropod_config" => err = FirstViolation(ConfigChecks(cfg))

\* the first input item has an invalid dtype, an invalid name and an
\* invalid shape, the output spec has an invalid item too: the dtype error
\* of the input item is the one reported
C7_Witness ==
    /\ op = "validate_neuropod_config"
    /\ cfg.name.k = "str"
    /\ cfg.platform.k = "str"
    /\ Len(cfg.input_spec) = 2
    /\ cfg.input_spec[1] = Item(PyStr("x"), PyStr("float32"), List(<<PyInt(5)>>))
    /\ cfg.input_spec[2] = Item(PyInt(1), PyStr("float16"), Scalar)
    /\ Len(cfg.output_spec) > 0
    /\ cfg.output_spec[1] = Item(PyStr("z"), PyStr("float32"), List(<<PyInt(0), PyBool(1)>>))
    /\ err = Raise("InvalidDtype", "item", "dtype", PyStr("float16"), NoShape)

\* every item has an allowed dtype, a text name and a shape that is a sequence
OnlyDimsToCheck(spec) ==
    \A i \in 1..Len(spec) :
        /\ InCanonicalSet(spec[i].dtype)
        /\ spec[i].name.k = "str"
        /\ spec[i].shape.kind \in {"list", "tuple"}

AllDimsAccepted(spec) ==
    \A i \in 1..Len(spec) :
        \A j \in 1..Len(spec[i].shape.dims) : DimAccepted(spec[i].shape.dims[j])

\* C8: the tensor spec validator accepts a shape exactly when every
\* dimension is None, a textual label, or a strictly positive integer that
\* is not a boolean; a shape with any other dimension (a boolean, zero, a
\* negative integer, a float) is rejected with InvalidDimension.
C8_DimensionAcceptance ==
    (op = "validate_tensor_spec" /\ OnlyDimsToCheck(tspec)) =>
        /\ err.err = "ok" <=> AllDimsAccepted(tspec)
        /\ err.err \in {"ok", "InvalidDimension"}
        /\ err.err = "InvalidDimension" => ~DimAccepted(err.got)

\* the shape [None, "batch", 5] was accepted
C8_Witness ==
    /\ op = "validate_tensor_spec"
    /\ Len(tspec) = 1
    /\ tspec[1].shape = List(<<PyNone, PyStr("batch"), PyInt(5)>>)
    /\ err.err = "ok"

\* what C9 says of the validator, for a canonical set S: an item whose
\* dtype is outside S is rejected, with InvalidDtype carrying that dtype
\* when no item before it is rejected, and no item is rejected with
\* InvalidDtype for a dtype in S.
DtypeMembership(S) ==
    /\ (\E i \in 1..Len(tspec) : ~(tspec[i].dtype.k = "str" /\ tspec[i].dtype.s \in S))
           => err.err # "ok"
    /\ \A i \in 1..Len(tspec) :
           (/\ ~(tspec[i].dtype.k = "str" /\ tspec[i].dtype.s \in S)
            /\ \A j \in 1..(i - 1) :
                   /\ tspec[j].dtype.k = "str" /\ tspec[j].dtype.s \in S
                   /\ tspec[j].name.k = "str"
                   /\ tspec[j].shape = List(<<PyInt(5)>>))
               => err = Raise("InvalidDtype", "item", "dtype", tspec[i].dtype, NoShape)
    /\ err.err = "InvalidDtype" => ~(err.got.k = "str" /\ err.got.s \in S)

\* C9 as stated: the validator rejects with InvalidDtype exactly the
\* dtypes outside the fixed canonical set, and that set has 12 members.
C9_Membership12 ==
    op = "validate_tensor_spec" =>
        (Cardinality(ALLOWED_DTYPES) = 12 /\ DtypeMembership(ALLOWED_DTYPES))

\* C9 amended: the validator rejects with InvalidDtype exactly the dtypes
\* outside the fixed canonical set, and that set has the 11 members
\* float32, float64, string, int8, int16, int32, int64, uint8, uint16,
\* uint32, uint64.
C9_Membership11 ==
    /\ Cardinality(CanonicalSet) = 11
    /\ ALLOWED_DTYPES = CanonicalSet
    /\ op = "validate_tensor_spec" => DtypeMembership(CanonicalSet)

\* an item with dtype float16 after an accepted item was rejected with
\* InvalidDtype
C9_Witness ==
    /\ op = "validate_tensor_spec"
    /\ Len(tspec) = 2
    /\ tspec[1].dtype = PyStr("uint64")
    /\ tspec[1].name = PyStr("x")
    /\ tspec[1].shape = List(<<PyInt(5)>>)
    /\ tspec[2].dtype = PyStr("float16")
    /\ err = Raise("InvalidDtype", "item", "dtype", PyStr("float16"), NoShape)

====
